---- MODULE Spec2Model ----
(***************************************************************************)
(* A model of the LARS, Nero and AdaFactor optimizers of pytorch_optimizer *)
(* (constructor, step, reset) as one state machine.                        *)
(*                                                                         *)
(* Numbers.  A tensor element is a float.  A float is modelled as a record *)
(* [c, v]: c = "fin" with v the value in units of 1/Scale (every           *)
(* operation rounds its exact result to that grid, as a float operation    *)
(* rounds to its format), or one of the IEEE specials c = "nan", "pinf",   *)
(* "ninf" (v = 0).  Division by zero and 0/0 follow IEEE-754, which is     *)
(* what torch computes.                                                    *)
(*                                                                         *)
(* Tensors.  A tensor is [shape, data]: shape a sequence of dimensions     *)
(* (rank = Len(shape), ranks 1 and 2 are modelled), data the elements in   *)
(* row-major order.                                                        *)
(***************************************************************************)
EXTENDS Integers, Sequences, FiniteSets, TLC

\* ------------------------------------------------------------------------
\* Bounds of the model
\* ------------------------------------------------------------------------

\* the number of step/reset calls explored after construction
MaxCalls == 2

\* one unit of the number grid is 1/Scale
Scale == 10 * 10 * 10

\* ------------------------------------------------------------------------
\* Floats
\* ------------------------------------------------------------------------

F(n) == [c |-> "fin", v |-> n]
NaN == [c |-> "nan", v |-> 0]
PInf == [c |-> "pinf", v |-> 0]
NInf == [c |-> "ninf", v |-> 0]

Zero == F(0)
One == F(Scale)
\* the float of the integer n
FInt(n) == F(n * Scale)
\* the float n/d of two integers, d > 0
Frac(n, d) == F((n * Scale) \div d)

IsNaN(x) == x.c = "nan"
IsFin(x) == x.c = "fin"
IsInf(x) == x.c \in {"pinf", "ninf"}

\* -1, 0, 1; only for non-NaN x
Sign(x) ==
    CASE x.c = "pinf" -> 1
      [] x.c = "ninf" -> -1
      [] OTHER -> IF x.v > 0 THEN 1 ELSE IF x.v < 0 THEN -1 ELSE 0

SignedInf(s) == IF s >= 0 THEN PInf ELSE NInf

AbsInt(n) == IF n < 0 THEN -n ELSE n

\* n / d rounded to the nearest integer (ties away from zero), d > 0
RoundDiv(n, d) ==
    IF n >= 0 THEN (2 * n + d) \div (2 * d) ELSE -((2 * (-n) + d) \div (2 * d))

\* x > y, x < y, x = y as floats: every comparison with NaN is false
Gt(x, y) ==
    /\ ~IsNaN(x) /\ ~IsNaN(y)
    /\ CASE x.c = "pinf" -> y.c # "pinf"
         [] x.c = "ninf" -> FALSE
         [] OTHER -> \/ y.c = "ninf"
                     \/ (y.c = "fin" /\ x.v > y.v)

Lt(x, y) == Gt(y, x)

FEq(x, y) == ~IsNaN(x) /\ ~IsNaN(y) /\ x = y

FNeg(x) ==
    CASE x.c = "fin" -> F(-x.v)
      [] x.c = "pinf" -> NInf
      [] x.c = "ninf" -> PInf
      [] OTHER -> NaN

FAbs(x) ==
    CASE x.c = "fin" -> F(AbsInt(x.v))
      [] x.c = "nan" -> NaN
      [] OTHER -> PInf

FAdd(x, y) ==
    CASE IsNaN(x) \/ IsNaN(y) -> NaN
      [] IsFin(x) /\ IsFin(y) -> F(x.v + y.v)
      [] IsInf(x) /\ IsInf(y) -> IF x.c = y.c THEN x ELSE NaN
      [] IsInf(x) -> x
      [] OTHER -> y

FSub(x, y) == FAdd(x, FNeg(y))

FMul(x, y) ==
    CASE IsNaN(x) \/ IsNaN(y) -> NaN
      [] IsFin(x) /\ IsFin(y) -> F(RoundDiv(x.v * y.v, Scale))
      [] Sign(x) = 0 \/ Sign(y) = 0 -> NaN
      [] OTHER -> SignedInf(Sign(x) * Sign(y))

\* IEEE division: 0/0 and inf/inf are NaN, x/0 is a signed infinity
FDiv(x, y) ==
    CASE IsNaN(x) \/ IsNaN(y) -> NaN
      [] IsInf(x) /\ IsInf(y) -> NaN
      [] IsInf(x) -> SignedInf(Sign(x) * (IF Sign(y) < 0 THEN -1 ELSE 1))
      [] IsInf(y) -> Zero
      [] y.v = 0 -> IF x.v = 0 THEN NaN ELSE SignedInf(Sign(x))
      [] OTHER -> F(RoundDiv(x.v * Scale * (IF y.v < 0 THEN -1 ELSE 1), AbsInt(y.v)))

\* the largest r with r * r <= n, by bisection on lo..hi (lo * lo <= n < hi * hi)
RECURSIVE ISqrtIn(_, _, _)
ISqrtIn(n, lo, hi) ==
    IF hi - lo <= 1 THEN lo
    ELSE LET mid == (lo + hi) \div 2
         IN IF mid * mid <= n THEN ISqrtIn(n, mid, hi) ELSE ISqrtIn(n, lo, mid)

ISqrt(n) == ISqrtIn(n, 0, 46341)

FSqrt(x) ==
    CASE IsNaN(x) -> NaN
      [] x.c = "pinf" -> PInf
      [] x.c = "ninf" -> NaN
      [] x.v < 0 -> NaN
      [] OTHER -> F(ISqrt(x.v * Scale))

\* 1 / sqrt(x)
FRsqrt(x) == FDiv(One, FSqrt(x))

FMax(x, y) == IF IsNaN(x) \/ IsNaN(y) THEN NaN ELSE IF Gt(y, x) THEN y ELSE x

FMin(x, y) == IF IsNaN(x) \/ IsNaN(y) THEN NaN ELSE IF Lt(y, x) THEN y ELSE x

\* ------------------------------------------------------------------------
\* Sequences of floats
\* ------------------------------------------------------------------------

RECURSIVE SumSeq(_)
SumSeq(s) == IF s = <<>> THEN Zero ELSE FAdd(Head(s), SumSeq(Tail(s)))

RECURSIVE SumSqInt(_)
SumSqInt(s) == IF s = <<>> THEN 0 ELSE Head(s).v * Head(s).v + SumSqInt(Tail(s))

\* the 2-norm sqrt(sum x_i^2) of a sequence of floats
NormSeq(s) ==
    IF \E i \in 1..Len(s) : IsNaN(s[i]) THEN NaN
    ELSE IF \E i \in 1..Len(s) : IsInf(s[i]) THEN PInf
    ELSE F(ISqrt(SumSqInt(s)))

MeanSeq(s) == FDiv(SumSeq(s), FInt(Len(s)))

\* ------------------------------------------------------------------------
\* Tensors
\* ------------------------------------------------------------------------

\* the sequence f (a function on 1..n), with its elements computed once
AsSeq(f) == <<>> \o f

T(shape, data) == [shape |-> shape, data |-> data]
Rank(t) == Len(t.shape)
Numel(t) == Len(t.data)

\* torch.zeros_like
ZerosLike(t) == [t EXCEPT !.data = AsSeq([i \in 1..Len(t.data) |-> Zero])]

\* t * s for a scalar float s
TScale(t, s) == [t EXCEPT !.data = AsSeq([i \in 1..Len(t.data) |-> FMul(t.data[i], s)])]

\* a + b elementwise
TAdd(a, b) == [a EXCEPT !.data = AsSeq([i \in 1..Len(a.data) |-> FAdd(a.data[i], b.data[i])])]

\* a - b elementwise
TSub(a, b) == [a EXCEPT !.data = AsSeq([i \in 1..Len(a.data) |-> FSub(a.data[i], b.data[i])])]

\* torch's a.add(b, alpha=s): a + s * b elementwise
AddAlpha(a, b, s) ==
    [a EXCEPT !.data = AsSeq([i \in 1..Len(a.data) |-> FAdd(a.data[i], FMul(s, b.data[i]))])]

\* torch.norm(t): the 2-norm over all elements
TNorm(t) == NormSeq(t.data)

TAllFinite(t) == \A i \in 1..Len(t.data) : IsFin(t.data[i])
THasNaN(t) == \E i \in 1..Len(t.data) : IsNaN(t.data[i])

\* the tensor of the given shape whose elements are the integers of ints
IntTensor(shape, ints) == T(shape, AsSeq([i \in 1..Len(ints) |-> FInt(ints[i])]))

\* ------------------------------------------------------------------------
\* The optimizer's world: parameters, gradients, state store, groups
\* ------------------------------------------------------------------------

VARIABLES
    kind,     \* the optimizer constructed: "none", "LARS", "Nero", "AdaFactor"
    self,     \* the instance attributes set by __init__ (self.lr, self.beta, ...)
    groups,   \* param_groups: a sequence of records, params a sequence of ids
    p,        \* parameter id -> tensor (the parameter's value)
    grad,     \* parameter id -> p.grad: absent, sparse or dense
    state,    \* parameter id -> the parameter's state bag (key -> value)
    ncalls,   \* the number of step/reset calls made so far
    last      \* the last call: its name, inputs, outcome, and the world before it

vars == <<kind, self, groups, p, grad, state, ncalls, last>>

\* the parameters of the modelled network, in registration order
ParamIds == 1..3
ParamShape == <<(<<2, 2>>), (<<2>>), (<<2, 1>>)>>
\* the parameter ids of the two groups handed to the constructor
GroupParams == <<(<<1, 2>>), (<<3>>)>>

\* p.grad
NoGrad == [k |-> "none", t |-> <<>>]
Dense(t) == [k |-> "dense", t |-> t]
Sparse(t) == [k |-> "sparse", t |-> t]

\* the state bag: a function from key to value; len(state) == 0 is EmptyBag
EmptyBag == [k \in {} |-> 0]
Has(bag, key) == key \in DOMAIN bag
Put(bag, key, val) == (key :> val) @@ bag

\* Python's None where a number is expected
None == [c |-> "none", v |-> 0]

\* a loss returned by a closure, and Python's None
NoLoss == [k |-> "none", v |-> 0]
Loss(n) == [k |-> "loss", v |-> n]
NoClosure == [present |-> FALSE, loss |-> NoLoss, grads |-> <<>>]

\* the gradients backpropagation can leave on the three parameters
GradScenarios ==
    LET g1a == IntTensor(ParamShape[1], <<3, 4, 0, 0>>)
        g1b == IntTensor(ParamShape[1], <<1, -1, 2, 0>>)
        g1z == IntTensor(ParamShape[1], <<0, 0, 0, 0>>)
        g2a == IntTensor(ParamShape[2], <<1, -2>>)
        g2z == IntTensor(ParamShape[2], <<0, 3>>)
        g3a == IntTensor(ParamShape[3], <<2, -1>>)
        g3z == IntTensor(ParamShape[3], <<0, 1>>)
    IN { <<Dense(g1a), Dense(g2a), Dense(g3a)>>,
         <<Dense(g1b), Dense(g2z), Dense(g3z)>>,
         <<Dense(g1z), Dense(g2a), Dense(g3z)>>,
         <<NoGrad, Dense(g2a), Dense(g3a)>>,
         <<Dense(g1b), NoGrad, NoGrad>>,
         <<Dense(g1a), Sparse(g2a), Dense(g3a)>>,
         <<Dense(g1b), Dense(g2a), Sparse(g3a)>>,
         <<Sparse(g1a), Dense(g2z), Dense(g3a)>> }

\* the closures a caller can pass to step: none, or one that runs backward
\* (leaving new gradients) and returns its loss
ClosureGrads ==
    {<<Dense(IntTensor(ParamShape[1], <<2, 0, -1, 1>>)),
       Dense(IntTensor(ParamShape[2], <<-1, 0>>)),
       Dense(IntTensor(ParamShape[3], <<1, 1>>))>>,
     <<Dense(IntTensor(ParamShape[1], <<0, 0, 1, 3>>)),
       Sparse(IntTensor(ParamShape[2], <<2, 2>>)),
       NoGrad>>}

Closures ==
    {NoClosure} \cup
    {[present |-> TRUE, loss |-> Loss(7), grads |-> gs] : gs \in ClosureGrads}

\* the world a call works on; raised = "" while no exception is in flight
World ==
    [self |-> self, p |-> p, grad |-> grad, state |-> state, groups |-> groups,
     raised |-> "", loss |-> NoLoss, calls |-> 0, saw |-> <<>>,
     trace |-> AsSeq([i \in ParamIds |-> <<>>]), svd_sign |-> One]

\* what a closure can observe of the optimizer when it is invoked
Observed(w) == [p |-> w.p, state |-> w.state, groups |-> w.groups]

\* loss = closure(): backward repopulates the gradients, the loss is kept
CallClosure(w, closure) ==
    IF closure.present
    THEN [w EXCEPT !.grad = closure.grads, !.loss = closure.loss,
                   !.calls = @ + 1, !.saw = Observed(w)]
    ELSE w

\* the record of a call, kept for the properties: the call's name and inputs,
\* the exception it raised ("" if none), the value it returned, how often it
\* invoked the closure and what the closure observed, the gradients it
\* consumed, each parameter's intermediate values, and the world before it
MkLast(op, args, closure, w, r) ==
    [op |-> op, args |-> args, closure |-> closure,
     raised |-> r.raised,
     ret |-> IF r.raised = "" THEN r.loss ELSE NoLoss,
     calls |-> r.calls, saw |-> r.saw, grad |-> r.grad, trace |-> r.trace,
     pre |-> Observed(w)]

NoCall == [op |-> "none"]

\* torch.optim.Optimizer.__init__ / add_param_group: every group is the
\* caller's dict (params plus the options it overrides) completed with defaults
MakeGroup(defaults, ids, over) ==
    [k \in (DOMAIN defaults) \cup (DOMAIN over) \cup {"params"} |->
        IF k = "params" THEN ids
        ELSE IF k \in DOMAIN over THEN over[k] ELSE defaults[k]]

MakeGroups(defaults, overs) ==
    AsSeq([gi \in 1..Len(GroupParams) |-> MakeGroup(defaults, GroupParams[gi], overs[gi])])

NoOver == [k \in {} |-> Zero]
NoOvers == <<NoOver, NoOver>>

\* the group and position of every parameter, in iteration order
RECURSIVE OrderFrom(_, _)
OrderFrom(gs, gi) ==
    IF gi > Len(gs) THEN <<>>
    ELSE AsSeq([j \in 1..Len(gs[gi].params) |-> [g |-> gi, i |-> gs[gi].params[j]]])
         \o OrderFrom(gs, gi + 1)

Order(gs) == OrderFrom(gs, 1)

\* ------------------------------------------------------------------------
\* LARS
\* ------------------------------------------------------------------------

LARSOptions == <<"lr", "weight_decay", "momentum", "trust_coefficient", "eps">>

LARSMessage(option) ==
    CASE option = "lr" -> "ValueError: Invalid learning rate"
      [] option = "weight_decay" -> "ValueError: Invalid weight_decay"
      [] option = "momentum" -> "ValueError: Invalid momentum"
      [] option = "trust_coefficient" -> "ValueError: Invalid trust_coefficient"
      [] OTHER -> "ValueError: Invalid eps"

\* the exception check_valid_parameters raises, "" if none
check_valid_parameters_AlsoZero(a) ==
    IF ~Gt(a.lr, Zero) THEN LARSMessage("lr")
    ELSE IF Lt(a.weight_decay, Zero) THEN LARSMessage("weight_decay")
    ELSE IF Lt(a.momentum, Zero) THEN LARSMessage("momentum")
    ELSE IF Lt(a.trust_coefficient, Zero) THEN LARSMessage("trust_coefficient")
    ELSE IF Lt(a.eps, Zero) THEN LARSMessage("eps")
    ELSE ""

check_valid_parameters(a) ==
    IF Lt(a.lr, Zero) THEN LARSMessage("lr")
    ELSE IF Lt(a.weight_decay, Zero) THEN LARSMessage("weight_decay")
    ELSE IF Lt(a.momentum, Zero) THEN LARSMessage("momentum")
    ELSE IF Lt(a.trust_coefficient, Zero) THEN LARSMessage("trust_coefficient")
    ELSE IF Lt(a.eps, Zero) THEN LARSMessage("eps")
    ELSE ""

LARSDefaults(a) ==
    [lr |-> a.lr, weight_decay |-> a.weight_decay, momentum |-> a.momentum,
     trust_coefficient |-> a.trust_coefficient]

\* q of one parameter: both branches of torch.where are computed, one is kept
LARSTrustRatio_NoUpdateGuard(tc, param_norm, update_norm) ==
    IF Gt(param_norm, Zero) THEN FDiv(FMul(tc, param_norm), update_norm) ELSE One

LARSTrustRatio(tc, param_norm, update_norm) ==
    LET one == One
        ratio == FDiv(FMul(tc, param_norm), update_norm)
    IN IF Gt(param_norm, Zero)
       THEN (IF Gt(update_norm, Zero) THEN ratio ELSE one)
       ELSE one

\* the gradient a parameter's momentum buffer receives, and the q used
LARSScaled_AnyRank(g, pt, gr0) ==
    LET gr == AddAlpha(gr0, pt, g.weight_decay)
        q == LARSTrustRatio(g.trust_coefficient, TNorm(pt), TNorm(gr))
    IN [grad |-> TScale(gr, q), scaled |-> TRUE, q |-> q]

LARSScaled_NormBeforeDecay(g, pt, gr0) ==
    IF Rank(pt) > 1
    THEN LET gr == AddAlpha(gr0, pt, g.weight_decay)
             q == LARSTrustRatio(g.trust_coefficient, TNorm(pt), TNorm(gr0))
         IN [grad |-> TScale(gr, q), scaled |-> TRUE, q |-> q]
    ELSE [grad |-> gr0, scaled |-> FALSE, q |-> One]

LARSScaled(g, pt, gr0) ==
    IF Rank(pt) > 1
    THEN LET gr == AddAlpha(gr0, pt, g.weight_decay)
             param_norm == TNorm(pt)
             update_norm == TNorm(gr)
             q == LARSTrustRatio(g.trust_coefficient, param_norm, update_norm)
         IN [grad |-> TScale(gr, q), scaled |-> TRUE, q |-> q]
    ELSE [grad |-> gr0, scaled |-> FALSE, q |-> One]

\* the body of the loop over a group's parameters, for parameter i of group g
LARSParam(w, g, i) ==
    IF w.grad[i].k = "none" THEN w
    ELSE IF w.grad[i].k = "sparse"
    THEN [w EXCEPT !.raised = "RuntimeError: LARS does not support sparse gradients"]
    ELSE LET sc == LARSScaled(g, w.p[i], w.grad[i].t)
             param_state == IF Has(w.state[i], "mu") THEN w.state[i]
                            ELSE Put(w.state[i], "mu", ZerosLike(w.p[i]))
             mu == TAdd(TScale(param_state["mu"], g.momentum), sc.grad)
         IN [w EXCEPT !.state[i] = Put(param_state, "mu", mu),
                      !.p[i] = AddAlpha(w.p[i], mu, FNeg(g.lr)),
                      !.trace[i] = [scaled |-> sc.scaled, q |-> sc.q]]

RECURSIVE LARSParams_StopAtMissing(_, _, _)
LARSParams_StopAtMissing(w, g, ids) ==
    IF ids = <<>> \/ w.raised # "" \/ w.grad[Head(ids)].k = "none" THEN w
    ELSE LARSParams_StopAtMissing(LARSParam(w, g, Head(ids)), g, Tail(ids))

RECURSIVE LARSParams(_, _, _)
LARSParams(w, g, ids) ==
    IF ids = <<>> \/ w.raised # "" THEN w
    ELSE LARSParams(LARSParam(w, g, Head(ids)), g, Tail(ids))

RECURSIVE LARSGroups(_, _)
LARSGroups(w, gi) ==
    IF gi > Len(w.groups) \/ w.raised # "" THEN w
    ELSE LARSGroups(LARSParams(w, w.groups[gi], w.groups[gi].params), gi + 1)

\* LARS.step(closure)
LARSStepOf(w, closure) == LARSGroups(CallClosure(w, closure), 1)

\* the constructor calls of the model: the arguments, the options each group
\* overrides, and the parameter values
LARSSetups ==
    LET baseA == [lr |-> Frac(1, 2), weight_decay |-> Zero, momentum |-> Zero,
                  trust_coefficient |-> Frac(1, 1000), eps |-> Frac(1, 1000)]
        baseB == [lr |-> One, weight_decay |-> Frac(1, 2), momentum |-> Frac(1, 2),
                  trust_coefficient |-> Frac(1, 2), eps |-> Frac(1, 1000)]
        neg == F(-(Scale \div 2))
        psA == <<IntTensor(ParamShape[1], <<6, 8, 0, 0>>),
                 IntTensor(ParamShape[2], <<1, -2>>),
                 IntTensor(ParamShape[3], <<0, 0>>)>>
        psB == <<IntTensor(ParamShape[1], <<1, 2, -2, 0>>),
                 IntTensor(ParamShape[2], <<0, 3>>),
                 IntTensor(ParamShape[3], <<2, -1>>)>>
    IN {[args |-> a, overs |-> NoOvers, params |-> ps] :
            a \in {baseA, baseB}, ps \in {psA, psB}}
       \cup
       {[args |-> [baseB EXCEPT ![LARSOptions[o]] = x], overs |-> NoOvers, params |-> psA] :
            o \in 1..Len(LARSOptions), x \in {neg, Zero}}
       \cup
       {[args |-> baseB, overs |-> <<NoOver, (LARSOptions[o] :> neg)>>, params |-> psB] :
            o \in 1..4}

NoGrads == AsSeq([i \in ParamIds |-> NoGrad])
NoState == AsSeq([i \in ParamIds |-> EmptyBag])

\* LARS(params, lr, weight_decay, momentum, trust_coefficient, eps)
LARSInit ==
    /\ kind = "none"
    /\ \E s \in LARSSetups :
        LET err == check_valid_parameters(s.args)
            w == [World EXCEPT !.raised = err]
        IN /\ last' = MkLast("LARS", s, NoClosure, World, w)
           /\ IF err # ""
              THEN UNCHANGED <<kind, self, groups, p, grad, state>>
              ELSE /\ kind' = "LARS"
                   /\ self' = s.args
                   /\ groups' = MakeGroups(LARSDefaults(s.args), s.overs)
                   /\ p' = s.params
                   /\ grad' = NoGrads
                   /\ state' = NoState
    /\ UNCHANGED ncalls

LARSStep ==
    /\ kind = "LARS"
    /\ ncalls < MaxCalls
    /\ \E c \in Closures : \E r \in {LARSStepOf(World, c)} :
           /\ p' = r.p
           /\ grad' = r.grad
           /\ state' = r.state
           /\ groups' = r.groups
           /\ last' = MkLast("step", <<>>, c, World, r)
    /\ ncalls' = ncalls + 1
    /\ UNCHANGED <<kind, self>>

\* ------------------------------------------------------------------------
\* Nero
\* ------------------------------------------------------------------------

\* the number of neurons (leading-axis slices) of t and the length of each
RowLen(t) == IF Rank(t) <= 1 THEN 1 ELSE Numel(t) \div t.shape[1]
NeuronCount(t) == IF Rank(t) <= 1 THEN Numel(t) ELSE t.shape[1]
NeuronRow(t, n) == SubSeq(t.data, (n - 1) * RowLen(t) + 1, n * RowLen(t))

\* view_shape: [x.shape[0]] + [1] * (x.dim() - 1)
ViewShape(t) == <<t.shape[1]>> \o AsSeq([k \in 1..(Rank(t) - 1) |-> 1])

neuron_norm(x) ==
    IF Rank(x) <= 1
    THEN [x EXCEPT !.data = AsSeq([e \in 1..Numel(x) |-> FAbs(x.data[e])])]
    ELSE T(ViewShape(x), AsSeq([n \in 1..x.shape[1] |-> NormSeq(NeuronRow(x, n))]))

\* defined for rank > 1 only (the code raises ValueError otherwise, and every
\* call is guarded by p.dim() > 1)
neuron_mean(x) ==
    T(ViewShape(x), AsSeq([n \in 1..x.shape[1] |-> MeanSeq(NeuronRow(x, n))]))

\* broadcasting a per-neuron tensor c against t: the element of c that meets
\* element e of t
BAt(c, t, e) == c.data[IF Numel(c) = Numel(t) THEN e ELSE ((e - 1) \div RowLen(t)) + 1]
BSub(t, c) == [t EXCEPT !.data = AsSeq([e \in 1..Numel(t) |-> FSub(t.data[e], BAt(c, t, e))])]
BDiv(t, c) == [t EXCEPT !.data = AsSeq([e \in 1..Numel(t) |-> FDiv(t.data[e], BAt(c, t, e))])]

TSquare(t) == [t EXCEPT !.data = AsSeq([e \in 1..Numel(t) |-> FMul(t.data[e], t.data[e])])]
TSqrt(t) == [t EXCEPT !.data = AsSeq([e \in 1..Numel(t) |-> FSqrt(t.data[e])])]
TDivScalar(t, s) == [t EXCEPT !.data = AsSeq([e \in 1..Numel(t) |-> FDiv(t.data[e], s)])]

\* x[torch.isnan(x)] = 0.0
NanToZero(t) ==
    [t EXCEPT !.data = AsSeq([e \in 1..Numel(t) |-> IF IsNaN(t.data[e]) THEN Zero ELSE t.data[e]])]

\* beta ** n for an integer n >= 0
RECURSIVE FPow(_, _)
FPow(x, n) == IF n = 0 THEN One ELSE FMul(x, FPow(x, n - 1))

\* p -= neuron_mean(p); p /= neuron_norm(p)
NeroProject(pt) ==
    LET centred == BSub(pt, neuron_mean(pt))
    IN BDiv(centred, neuron_norm(centred))

\* the 0.01 that replaces a zero scale
NeroScaleFloor == Frac(1, 100)

\* the (re)initialisation of one parameter of a group: the parameter's new
\* value and its new state
NeroInitParam(group, pt, bag) ==
    LET pnew == IF group.constraints /\ Rank(pt) > 1 THEN NeroProject(pt) ELSE pt
        scale == MeanSeq(neuron_norm(pnew).data)
        b1 == Put(bag, "step", 0)
        b2 == Put(b1, "exp_avg_sq", ZerosLike(neuron_norm(pnew)))
        b3 == Put(b2, "scale", IF FEq(scale, Zero) THEN NeroScaleFloor ELSE scale)
    IN [p |-> pnew, state |-> b3]

\* the body of step's loop, for parameter i of group
NeroParam(w, group, i) ==
    IF w.grad[i].k = "none" THEN w
    ELSE IF w.grad[i].k = "sparse"
    THEN [w EXCEPT !.raised = "RuntimeError: Nero does not support sparse gradients"]
    ELSE LET gr == w.grad[i].t
             init == IF w.state[i] = EmptyBag
                     THEN NeroInitParam(group, w.p[i], w.state[i])
                     ELSE [p |-> w.p[i], state |-> w.state[i]]
             step == init.state["step"] + 1
             bias_correction == FSub(One, FPow(w.self.beta, step))
             exp_avg_sq == TAdd(TScale(init.state["exp_avg_sq"], w.self.beta),
                                TScale(TSquare(neuron_norm(gr)), FSub(One, w.self.beta)))
             grad_normed == NanToZero(BDiv(gr, TSqrt(TDivScalar(exp_avg_sq, bias_correction))))
             term == TScale(grad_normed, FMul(group.lr, init.state["scale"]))
             moved == TSub(init.p, term)
             pnew == IF group.constraints /\ Rank(moved) > 1 THEN NeroProject(moved) ELSE moved
         IN [w EXCEPT !.state[i] = Put(Put(init.state, "step", step), "exp_avg_sq", exp_avg_sq),
                      !.p[i] = pnew,
                      !.trace[i] = [grad_normed |-> grad_normed, before |-> init.p,
                                    moved |-> moved]]

RECURSIVE NeroParams(_, _, _)
NeroParams(w, group, ids) ==
    IF ids = <<>> \/ w.raised # "" THEN w
    ELSE NeroParams(NeroParam(w, group, Head(ids)), group, Tail(ids))

RECURSIVE NeroGroups(_, _)
NeroGroups(w, gi) ==
    IF gi > Len(w.groups) \/ w.raised # "" THEN w
    ELSE NeroGroups(NeroParams(w, w.groups[gi], w.groups[gi].params), gi + 1)

\* Nero.step(closure)
NeroStepOf_ClosureAfterLoop(w, closure) == CallClosure(NeroGroups(w, 1), closure)

NeroStepOf(w, closure) == NeroGroups(CallClosure(w, closure), 1)

\* reset's loop over the parameters of a group
RECURSIVE NeroResetParams_NoProjection(_, _, _)
NeroResetParams_NoProjection(w, group, ids) ==
    IF ids = <<>> THEN w
    ELSE LET i == Head(ids)
             r == NeroInitParam([group EXCEPT !.constraints = FALSE], w.p[i], w.state[i])
         IN NeroResetParams_NoProjection([w EXCEPT !.p[i] = r.p, !.state[i] = r.state],
                                         group, Tail(ids))

RECURSIVE NeroResetParams(_, _, _)
NeroResetParams(w, group, ids) ==
    IF ids = <<>> THEN w
    ELSE LET i == Head(ids)
             r == NeroInitParam(group, w.p[i], w.state[i])
         IN NeroResetParams([w EXCEPT !.p[i] = r.p, !.state[i] = r.state], group, Tail(ids))

RECURSIVE NeroResetGroups(_, _)
NeroResetGroups(w, gi) ==
    IF gi > Len(w.groups) THEN w
    ELSE NeroResetGroups(NeroResetParams(w, w.groups[gi], w.groups[gi].params), gi + 1)

\* Nero.reset()
NeroResetOf(w) == NeroResetGroups(w, 1)

\* validate_learning_rate and validate_beta0 of BaseOptimizer: the exception
\* raised, "" if none
NeroValidate(a) ==
    IF Lt(a.lr, Zero) THEN "ValueError: learning rate"
    ELSE IF Lt(a.beta, Zero) \/ ~Lt(a.beta, One) THEN "ValueError: beta0"
    ELSE ""

NeroSetups ==
    LET base == [lr |-> Frac(1, 2), beta |-> Frac(1, 2), constraints |-> TRUE]
        psA == <<IntTensor(ParamShape[1], <<1, 2, -2, 0>>),
                 IntTensor(ParamShape[2], <<0, 3>>),
                 IntTensor(ParamShape[3], <<2, -1>>)>>
        psB == <<IntTensor(ParamShape[1], <<1, 1, 3, -1>>),
                 IntTensor(ParamShape[2], <<0, 0>>),
                 IntTensor(ParamShape[3], <<0, 0>>)>>
    IN {[args |-> [base EXCEPT !.constraints = c], overs |-> NoOvers, params |-> ps] :
            c \in BOOLEAN, ps \in {psA, psB}}
       \cup
       {[args |-> base, overs |-> <<NoOver, ("constraints" :> FALSE)>>, params |-> psA],
        [args |-> [base EXCEPT !.lr = F(-(Scale \div 2))], overs |-> NoOvers, params |-> psA]}

\* Nero(params, lr, beta, constraints)
NeroInit ==
    /\ kind = "none"
    /\ \E s \in NeroSetups :
        LET err == NeroValidate(s.args)
            w == [World EXCEPT !.raised = err]
        IN /\ last' = MkLast("Nero", s, NoClosure, World, w)
           /\ IF err # ""
              THEN UNCHANGED <<kind, self, groups, p, grad, state>>
              ELSE /\ kind' = "Nero"
                   /\ self' = [lr |-> s.args.lr, beta |-> s.args.beta]
                   /\ groups' = MakeGroups([lr |-> s.args.lr, constraints |-> s.args.constraints],
                                           s.overs)
                   /\ p' = s.params
                   /\ grad' = NoGrads
                   /\ state' = NoState
    /\ UNCHANGED ncalls

NeroStep ==
    /\ kind = "Nero"
    /\ ncalls < MaxCalls
    /\ \E c \in Closures : \E r \in {NeroStepOf(World, c)} :
           /\ p' = r.p
           /\ grad' = r.grad
           /\ state' = r.state
           /\ groups' = r.groups
           /\ last' = MkLast("step", <<>>, c, World, r)
    /\ ncalls' = ncalls + 1
    /\ UNCHANGED <<kind, self>>

NeroReset ==
    /\ kind = "Nero"
    /\ ncalls < MaxCalls
    /\ \E r \in {NeroResetOf(World)} :
           /\ p' = r.p
           /\ state' = r.state
           /\ groups' = r.groups
           /\ last' = MkLast("reset", <<>>, NoClosure, World, r)
    /\ ncalls' = ncalls + 1
    /\ UNCHANGED <<kind, self, grad>>

\* ------------------------------------------------------------------------
\* AdaFactor
\* ------------------------------------------------------------------------

\* validate_learning_rate, validate_betas and validate_non_negative of
\* BaseOptimizer: the exception raised, "" if none
AdaFactorValidate(a) ==
    IF Lt(a.lr, Zero) THEN "NegativeLRError"
    ELSE IF Lt(a.betas[2], Zero) \/ Gt(a.betas[2], One) THEN "ValueError: beta2"
    ELSE IF Lt(a.weight_decay, Zero) THEN "ValueError: weight_decay"
    ELSE IF Lt(a.eps1, Zero) THEN "ValueError: eps1"
    ELSE IF Lt(a.eps2, Zero) THEN "ValueError: eps2"
    ELSE ""

AdaFactorDefaults(a) ==
    [lr |-> a.lr, betas |-> a.betas, weight_decay |-> a.weight_decay,
     weight_decouple |-> a.weight_decouple, fixed_decay |-> a.fixed_decay,
     ams_bound |-> a.ams_bound, scale_parameter |-> a.scale_parameter,
     relative_step |-> a.relative_step, warmup_init |-> a.warmup_init,
     eps1 |-> a.eps1, eps2 |-> a.eps2]

\* get_options: factored
get_options(shape) == Len(shape) >= 2

\* get_rms: x.norm(2) / math.sqrt(x.numel())
get_rms(x) == FDiv(TNorm(x), FSqrt(FInt(Numel(x))))

\* math.pow(step, decay_rate) for the decay rates of the model, -0.8 and -1
\* (step^-0.8 = 1, 0.574, 0.415, 0.330, 0.276, 0.238 for step = 1..6)
PowStep(step, decay_rate) ==
    IF decay_rate = FInt(-1) THEN FDiv(One, FInt(step))
    ELSE <<Frac(1000, 1000), Frac(574, 1000), Frac(415, 1000), Frac(330, 1000),
           Frac(276, 1000), Frac(238, 1000)>>[step]

\* get_lr, lines 113-116: the step size before the parameter scale
relative_step_size_NoCeiling(lr, step, relative_step, warmup_init) ==
    IF relative_step THEN FDiv(One, FSqrt(FInt(step))) ELSE lr

relative_step_size(lr, step, relative_step, warmup_init) ==
    LET min_step == IF warmup_init THEN FMul(Frac(1, 1000000), FInt(step)) ELSE Frac(1, 100)
    IN IF relative_step
       THEN FMin(min_step, FDiv(One, FSqrt(FInt(step))))
       ELSE lr

\* get_lr, line 118
param_scale(slf, rms, scale_parameter) ==
    IF scale_parameter THEN One ELSE FMax(slf.eps2, rms)

get_lr(slf, lr, step, rms, relative_step, warmup_init, scale_parameter) ==
    FMul(param_scale(slf, rms, scale_parameter),
         relative_step_size(lr, step, relative_step, warmup_init))

\* the shapes and reductions of a rank-2 tensor of shape (n, m)
Rows(t) == t.shape[1]
Cols(t) == t.shape[2]
At(t, i, j) == t.data[(i - 1) * Cols(t) + j]
\* x.mean(dim=-1) and x.mean(dim=-2)
MeanLast(t) ==
    T(<<Rows(t)>>, AsSeq([i \in 1..Rows(t) |-> MeanSeq(AsSeq([j \in 1..Cols(t) |-> At(t, i, j)]))]))
MeanSecondLast(t) ==
    T(<<Cols(t)>>, AsSeq([j \in 1..Cols(t) |-> MeanSeq(AsSeq([i \in 1..Rows(t) |-> At(t, i, j)]))]))

TAddScalar(t, s) == [t EXCEPT !.data = AsSeq([e \in 1..Numel(t) |-> FAdd(t.data[e], s)])]
TMul(a, b) == [a EXCEPT !.data = AsSeq([e \in 1..Numel(a) |-> FMul(a.data[e], b.data[e])])]
TRsqrt(t) == [t EXCEPT !.data = AsSeq([e \in 1..Numel(t) |-> FRsqrt(t.data[e])])]
TRecip(t) == [t EXCEPT !.data = AsSeq([e \in 1..Numel(t) |-> FDiv(One, t.data[e])])]
TMax(a, b) == [a EXCEPT !.data = AsSeq([e \in 1..Numel(a) |-> FMax(a.data[e], b.data[e])])]
TNeg(t) == [t EXCEPT !.data = AsSeq([e \in 1..Numel(t) |-> FNeg(t.data[e])])]
Zeros(shape, n) == T(shape, AsSeq([e \in 1..n |-> Zero]))

\* approximate_sq_grad: the outer product of the row and column factors, in
\* the shape of the gradient
approximate_sq_grad(exp_avg_sq_row, exp_avg_sq_col, shape) ==
    LET row_mean == MeanSeq(exp_avg_sq_row.data)
        r_factor == TRsqrt(TDivScalar(exp_avg_sq_row, row_mean))
        c_factor == TRsqrt(exp_avg_sq_col)
    IN T(shape, AsSeq([e \in 1..(shape[1] * shape[2]) |->
                    FMul(r_factor.data[((e - 1) \div shape[2]) + 1],
                         c_factor.data[((e - 1) % shape[2]) + 1])]))

\* the buffers both the first step and reset create for a parameter
AdaFactorBuffers(group, pt, gr, bag) ==
    LET b1 == Put(bag, "exp_avg", ZerosLike(pt))
        b2 == IF get_options(gr.shape)
              THEN Put(Put(b1, "exp_avg_sq_row", Zeros(<<gr.shape[1]>>, gr.shape[1])),
                       "exp_avg_sq_col", Zeros(<<gr.shape[2]>>, gr.shape[2]))
              ELSE Put(b1, "exp_avg_sq", ZerosLike(gr))
        b3 == IF group.ams_bound THEN Put(b2, "exp_avg_sq_hat", ZerosLike(gr)) ELSE b2
    IN Put(b3, "RMS", Zero)

\* BaseOptimizer.apply_weight_decay, called with grad = None
apply_weight_decay(pt, lr, weight_decay, weight_decouple, fixed_decay) ==
    IF weight_decouple
    THEN TScale(pt, FSub(One, FMul(weight_decay, IF fixed_decay THEN One ELSE lr)))
    ELSE pt

\* (self.get_rms(update) / self.clip_threshold).clamp_(min=1.0)
ClipDivisor_NoClamp(rms, clip_threshold) == FDiv(rms, clip_threshold)

ClipDivisor(rms, clip_threshold) == FMax(FDiv(rms, clip_threshold), One)

\* GaLoreProjector(rank, update_proj_gap, scale, projection_type): the object
\* step keeps in the parameter's state under 'projector'
GaLoreProjector(group) ==
    [rank |-> group.rank, update_proj_gap |-> group.update_proj_gap,
     scale |-> group.scale, projection_type |-> group.projection_type]

\* projector.project(grad, step) for a gradient of shape (n, 1): the
\* orthogonal matrix is the 1x1 right singular vector, 1 or -1 (svd_sign)
project(svd_sign, gr) == TScale(gr, svd_sign)

\* projector.project_back(exp_avg): back through the same matrix, times scale
project_back(projector, svd_sign, low_rank) ==
    TScale(TScale(low_rank, svd_sign), projector.scale)

\* the first of the buffers step reads that the parameter's state lacks
MissingBuffer(bag, factored) ==
    IF factored /\ ~Has(bag, "exp_avg_sq_row") THEN "exp_avg_sq_row"
    ELSE IF factored /\ ~Has(bag, "exp_avg_sq_col") THEN "exp_avg_sq_col"
    ELSE IF ~factored /\ ~Has(bag, "exp_avg_sq") THEN "exp_avg_sq"
    ELSE IF ~Has(bag, "exp_avg") THEN "exp_avg"
    ELSE ""

KeyError(key) ==
    CASE key = "exp_avg_sq_row" -> "KeyError: 'exp_avg_sq_row'"
      [] key = "exp_avg_sq_col" -> "KeyError: 'exp_avg_sq_col'"
      [] key = "exp_avg_sq" -> "KeyError: 'exp_avg_sq'"
      [] OTHER -> "KeyError: 'exp_avg'"

\* the body of step's loop, for parameter i of group, after the sparse check
AdaFactorUpdate(w, group, i, beta2_t) ==
    LET pt == w.p[i]
        factored == get_options(w.grad[i].t.shape)
        beta1 == group.betas[1]
        ranked == Has(group, "rank")
        \* the projector is stored before the state is tested for emptiness
        projected == IF ranked /\ ~Has(w.state[i], "projector")
                     THEN Put(w.state[i], "projector", GaLoreProjector(group))
                     ELSE w.state[i]
        gr == IF ranked THEN project(w.svd_sign, w.grad[i].t) ELSE w.grad[i].t
        st0 == IF projected = EmptyBag THEN AdaFactorBuffers(group, pt, gr, projected)
               ELSE projected
        missing == MissingBuffer(st0, factored)
        rms == get_rms(pt)
        lr == get_lr(w.self, group.lr, group.step, rms, group.relative_step,
                     group.warmup_init, group.scale_parameter)
        sq == TAddScalar(TMul(gr, gr), w.self.eps1)
        complement == FSub(One, beta2_t)
        row == IF factored
               THEN TAdd(TScale(st0["exp_avg_sq_row"], beta2_t), TScale(MeanLast(sq), complement))
               ELSE <<>>
        col == IF factored
               THEN TAdd(TScale(st0["exp_avg_sq_col"], beta2_t),
                         TScale(MeanSecondLast(sq), complement))
               ELSE <<>>
        dense == IF factored THEN <<>>
                 ELSE TAdd(TScale(st0["exp_avg_sq"], beta2_t), TScale(sq, complement))
        estimate == IF factored THEN approximate_sq_grad(row, col, gr.shape) ELSE TRsqrt(dense)
        hat == IF group.ams_bound THEN TMax(st0["exp_avg_sq_hat"], TRecip(estimate)) ELSE <<>>
        factor == IF group.ams_bound THEN TRsqrt(TDivScalar(hat, beta2_t)) ELSE estimate
        candidate == TMul(factor, gr)
        divisor == ClipDivisor(get_rms(candidate), w.self.clip_threshold)
        clipped == TDivScalar(candidate, divisor)
        update == TScale(clipped, lr)
        exp_avg == IF beta1 = None THEN st0["exp_avg"]
                   ELSE TAdd(TScale(st0["exp_avg"], beta1), TScale(update, FSub(One, beta1)))
        back == IF ranked THEN project_back(st0["projector"], w.svd_sign, exp_avg) ELSE exp_avg
        decayed == apply_weight_decay(pt, lr, group.weight_decay, group.weight_decouple,
                                      group.fixed_decay)
        s1 == Put(Put(st0, "RMS", rms), "exp_avg", exp_avg)
        s2 == IF factored THEN Put(Put(s1, "exp_avg_sq_row", row), "exp_avg_sq_col", col)
              ELSE Put(s1, "exp_avg_sq", dense)
        s3 == IF group.ams_bound THEN Put(s2, "exp_avg_sq_hat", hat) ELSE s2
    IN IF missing # ""
       THEN \* state['RMS'] is written, then the read of the missing buffer raises
            [w EXCEPT !.state[i] = Put(st0, "RMS", rms), !.raised = KeyError(missing)]
       ELSE IF beta1 = None
       THEN \* exp_avg.mul_(None): the second-moment buffers are already updated
            [w EXCEPT !.state[i] = s3,
                      !.raised = "TypeError: mul_(): argument 'other' must be Number, not NoneType"]
       ELSE
       [w EXCEPT !.state[i] = s3,
                 !.p[i] = TAdd(decayed, TNeg(back)),
                 !.trace[i] = [lr |-> lr, beta2_t |-> beta2_t, factor |-> factor,
                               rms |-> rms,
                               step_size |-> relative_step_size(group.lr, group.step,
                                                group.relative_step, group.warmup_init),
                               param_scale |-> param_scale(w.self, rms, group.scale_parameter),
                               candidate |-> candidate, divisor |-> divisor,
                               clipped |-> clipped,
                               update |-> update]]

AdaFactorParam(w, group, i, beta2_t) ==
    IF w.grad[i].k = "none" THEN w
    ELSE IF w.grad[i].k = "sparse"
    THEN [w EXCEPT !.raised = "NoSparseGradientError: AdaFactor"]
    ELSE AdaFactorUpdate(w, group, i, beta2_t)

RECURSIVE AdaFactorParams(_, _, _)
AdaFactorParams(w, gi, ids) ==
    IF ids = <<>> \/ w.raised # "" THEN w
    ELSE LET group == w.groups[gi]
             beta2_t == FSub(One, PowStep(group.step, w.self.decay_rate))
         IN AdaFactorParams(AdaFactorParam(w, group, Head(ids), beta2_t), gi, Tail(ids))

\* group['step'] += 1, or = 1 when the group has none
BumpStep(group) ==
    IF Has(group, "step") THEN Put(group, "step", group.step + 1) ELSE Put(group, "step", 1)

RECURSIVE AdaFactorGroups_BumpIfGradient(_, _)
AdaFactorGroups_BumpIfGradient(w, gi) ==
    IF gi > Len(w.groups) \/ w.raised # "" THEN w
    ELSE LET ids == w.groups[gi].params
             w1 == IF \E k \in 1..Len(ids) : w.grad[ids[k]].k # "none"
                   THEN [w EXCEPT !.groups[gi] = BumpStep(w.groups[gi])]
                   ELSE [w EXCEPT !.groups[gi] = IF Has(w.groups[gi], "step") THEN w.groups[gi]
                                                  ELSE Put(w.groups[gi], "step", 0)]
         IN AdaFactorGroups_BumpIfGradient(AdaFactorParams(w1, gi, ids), gi + 1)

RECURSIVE AdaFactorGroups(_, _)
AdaFactorGroups(w, gi) ==
    IF gi > Len(w.groups) \/ w.raised # "" THEN w
    ELSE LET w1 == [w EXCEPT !.groups[gi] = BumpStep(w.groups[gi])]
         IN AdaFactorGroups(AdaFactorParams(w1, gi, w1.groups[gi].params), gi + 1)

\* AdaFactor.step(closure)
AdaFactorStepOf_ChecksFirst(w, closure) ==
    LET w0 == CallClosure(w, closure)
    IN IF \E i \in ParamIds : w0.grad[i].k = "sparse"
       THEN [w0 EXCEPT !.raised = "NoSparseGradientError: AdaFactor"]
       ELSE AdaFactorGroups(w0, 1)

AdaFactorStepOf(w, closure) == AdaFactorGroups(CallClosure(w, closure), 1)

\* reset's loop over the parameters of a group: grad.shape of an absent
\* gradient raises AttributeError
RECURSIVE AdaFactorResetParams(_, _, _)
AdaFactorResetParams(w, group, ids) ==
    IF ids = <<>> \/ w.raised # "" THEN w
    ELSE LET i == Head(ids)
         IN IF w.grad[i].k = "none"
            THEN [w EXCEPT !.raised = "AttributeError: 'NoneType' object has no attribute 'shape'"]
            ELSE AdaFactorResetParams(
                    [w EXCEPT !.state[i] = AdaFactorBuffers(group, w.p[i], w.grad[i].t, w.state[i])],
                    group, Tail(ids))

RECURSIVE AdaFactorResetGroups(_, _)
AdaFactorResetGroups(w, gi) ==
    IF gi > Len(w.groups) \/ w.raised # "" THEN w
    ELSE LET w1 == [w EXCEPT !.groups[gi] = Put(w.groups[gi], "step", 0)]
         IN AdaFactorResetGroups(AdaFactorResetParams(w1, w1.groups[gi], w1.groups[gi].params),
                                 gi + 1)

\* AdaFactor.reset()
AdaFactorResetOf(w) == AdaFactorResetGroups(w, 1)

AdaFactorSetups ==
    LET base == [lr |-> Frac(1, 2), betas |-> <<Frac(1, 2), Frac(999, 1000)>>,
                 decay_rate |-> Frac(-800, 1000), weight_decay |-> Zero,
                 weight_decouple |-> TRUE, fixed_decay |-> FALSE, clip_threshold |-> One,
                 ams_bound |-> FALSE, scale_parameter |-> TRUE, relative_step |-> TRUE,
                 warmup_init |-> FALSE, eps1 |-> Frac(1, 4), eps2 |-> Frac(1, 1000)]
        psA == <<IntTensor(ParamShape[1], <<1, 2, -2, 0>>),
                 IntTensor(ParamShape[2], <<0, 3>>),
                 IntTensor(ParamShape[3], <<2, -1>>)>>
        psB == <<IntTensor(ParamShape[1], <<0, 0, 0, 0>>),
                 IntTensor(ParamShape[2], <<1, 1>>),
                 IntTensor(ParamShape[3], <<0, 4>>)>>
    IN {[args |-> a, overs |-> NoOvers, params |-> psA] :
            a \in {base,
                   [base EXCEPT !.ams_bound = TRUE],
                   [base EXCEPT !.scale_parameter = FALSE],
                   [base EXCEPT !.relative_step = FALSE, !.weight_decay = Frac(1, 2)],
                   [base EXCEPT !.weight_decay = F(-(Scale \div 2))]}}
       \cup
       {[args |-> base, overs |-> <<NoOver, ("ams_bound" :> TRUE)>>, params |-> psB]}

\* AdaFactor(params, lr, betas, decay_rate, weight_decay, ...)
AdaFactorInit ==
    /\ kind = "none"
    /\ \E s \in AdaFactorSetups :
        LET err == AdaFactorValidate(s.args)
            w == [World EXCEPT !.raised = err]
        IN /\ last' = MkLast("AdaFactor", s, NoClosure, World, w)
           /\ IF err # ""
              THEN UNCHANGED <<kind, self, groups, p, grad, state>>
              ELSE /\ kind' = "AdaFactor"
                   /\ self' = [decay_rate |-> s.args.decay_rate,
                               clip_threshold |-> s.args.clip_threshold,
                               eps1 |-> s.args.eps1, eps2 |-> s.args.eps2]
                   /\ groups' = MakeGroups(AdaFactorDefaults(s.args), s.overs)
                   /\ p' = s.params
                   /\ grad' = NoGrads
                   /\ state' = NoState
    /\ UNCHANGED ncalls

AdaFactorStep ==
    /\ kind = "AdaFactor"
    /\ ncalls < MaxCalls
    /\ \E c \in Closures : \E r \in {AdaFactorStepOf(World, c)} :
           /\ p' = r.p
           /\ grad' = r.grad
           /\ state' = r.state
           /\ groups' = r.groups
           /\ last' = MkLast("step", <<>>, c, World, r)
    /\ ncalls' = ncalls + 1
    /\ UNCHANGED <<kind, self>>

AdaFactorReset ==
    /\ kind = "AdaFactor"
    /\ ncalls < MaxCalls
    /\ \E r \in {AdaFactorResetOf(World)} :
           /\ p' = r.p
           /\ state' = r.state
           /\ groups' = r.groups
           /\ last' = MkLast("reset", <<>>, NoClosure, World, r)
    /\ ncalls' = ncalls + 1
    /\ UNCHANGED <<kind, self, grad>>

\* the training loop's zero_grad() and backward(): new gradients
Backward ==
    /\ kind # "none"
    /\ ncalls < MaxCalls
    /\ \E gs \in GradScenarios : grad' = gs
    /\ last' = NoCall
    /\ UNCHANGED <<kind, self, groups, p, state, ncalls>>

Init ==
    /\ kind = "none"
    /\ self = <<>>
    /\ groups = <<>>
    /\ p = <<>>
    /\ grad = <<>>
    /\ state = <<>>
    /\ ncalls = 0
    /\ last = NoCall

Next ==
    \/ LARSInit
    \/ LARSStep
    \/ NeroInit
    \/ NeroStep
    \/ NeroReset
    \/ AdaFactorInit
    \/ AdaFactorStep
    \/ AdaFactorReset
    \/ Backward

Spec == Init /\ [][Next]_vars

\* ------------------------------------------------------------------------
\* AdaFactor with a parameter group that carries the GaLore options
\* ('rank' in group, adafactor.py:173): the second group, whose parameter
\* has shape (2,1)

GaLoreOptions ==
    ("rank" :> 1) @@ ("update_proj_gap" :> 1) @@ ("scale" :> One)
        @@ ("projection_type" :> "std")

GaLoreSetups ==
    {[s EXCEPT !.overs = <<NoOver, GaLoreOptions>>] :
        s \in {t \in AdaFactorSetups : t.overs = NoOvers}}

\* the sign the singular value decomposition gives the 1x1 orthogonal matrix
SvdSigns == {One, FInt(-1)}

\* AdaFactor([{'params': ...}, {'params': ..., 'rank': 1, ...}], ...)
GaLoreInit ==
    /\ kind = "none"
    /\ \E s \in GaLoreSetups :
        LET err == AdaFactorValidate(s.args)
            w == [World EXCEPT !.raised = err]
        IN /\ last' = MkLast("AdaFactor", s, NoClosure, World, w)
           /\ IF err # ""
              THEN UNCHANGED <<kind, self, groups, p, grad, state>>
              ELSE /\ kind' = "AdaFactor"
                   /\ self' = [decay_rate |-> s.args.decay_rate,
                               clip_threshold |-> s.args.clip_threshold,
                               eps1 |-> s.args.eps1, eps2 |-> s.args.eps2]
                   /\ groups' = MakeGroups(AdaFactorDefaults(s.args), s.overs)
                   /\ p' = s.params
                   /\ grad' = NoGrads
                   /\ state' = NoState
    /\ UNCHANGED ncalls

GaLoreStep ==
    /\ kind = "AdaFactor"
    /\ ncalls < MaxCalls
    /\ \E c \in Closures : \E sg \in SvdSigns :
        \E r \in {AdaFactorStepOf([World EXCEPT !.svd_sign = sg], c)} :
           /\ p' = r.p
           /\ grad' = r.grad
           /\ state' = r.state
           /\ groups' = r.groups
           /\ last' = MkLast("step", <<>>, c, World, r)
    /\ ncalls' = ncalls + 1
    /\ UNCHANGED <<kind, self>>

GaLoreNext ==
    \/ GaLoreInit
    \/ GaLoreStep
    \/ AdaFactorReset
    \/ Backward

GaLoreSpec == Init /\ [][GaLoreNext]_vars

\* ------------------------------------------------------------------------
\* The end-to-end scenario: AdaFactor on a single parameter of shape (4,4)
\* with a gradient of 1.0 everywhere
\* ------------------------------------------------------------------------

ScenarioShape == <<4, 4>>

\* torch.full(shape, x)
Full(shape, x) == T(shape, AsSeq([e \in 1..(shape[1] * shape[2]) |-> x]))

ScenarioSetups ==
    LET base == [lr |-> Frac(1, 2), betas |-> <<Frac(1, 2), Frac(999, 1000)>>,
                 decay_rate |-> Frac(-800, 1000), weight_decay |-> Zero,
                 weight_decouple |-> TRUE, fixed_decay |-> FALSE, clip_threshold |-> One,
                 ams_bound |-> FALSE, scale_parameter |-> TRUE, relative_step |-> TRUE,
                 warmup_init |-> FALSE, eps1 |-> Zero, eps2 |-> Frac(1, 1000)]
    IN {[args |-> [base EXCEPT !.lr = lr, !.scale_parameter = sp, !.eps1 = e1,
                               !.relative_step = rs],
         value |-> x] :
            lr \in {Frac(1, 2), FInt(2)}, sp \in BOOLEAN, rs \in BOOLEAN,
            e1 \in {Zero, Frac(1, 4)}, x \in {Frac(1, 2), FInt(1), FInt(3)}}

\* AdaFactor([w], lr=..., decay_rate=-0.8, relative_step=..., warmup_init=False)
ScenarioConstruct ==
    /\ kind = "none"
    /\ \E s \in ScenarioSetups :
        /\ AdaFactorValidate(s.args) = ""
        /\ last' = MkLast("AdaFactor", s, NoClosure, World, World)
        /\ kind' = "AdaFactor"
        /\ self' = [decay_rate |-> s.args.decay_rate,
                    clip_threshold |-> s.args.clip_threshold,
                    eps1 |-> s.args.eps1, eps2 |-> s.args.eps2]
        /\ groups' = <<MakeGroup(AdaFactorDefaults(s.args), <<1>>, NoOver)>>
        /\ p' = <<Full(ScenarioShape, s.value)>>
        /\ grad' = <<NoGrad>>
        /\ state' = <<EmptyBag>>
    /\ UNCHANGED ncalls

\* backward leaves a gradient of 1.0 everywhere
ScenarioBackward ==
    /\ kind = "AdaFactor"
    /\ ncalls < MaxCalls
    /\ grad' = <<Dense(Full(ScenarioShape, One))>>
    /\ last' = NoCall
    /\ UNCHANGED <<kind, self, groups, p, state, ncalls>>

\* optimizer.step()
ScenarioStep ==
    /\ kind = "AdaFactor"
    /\ ncalls < MaxCalls
    /\ \E r \in {AdaFactorStepOf(World, NoClosure)} :
           /\ p' = r.p
           /\ grad' = r.grad
           /\ state' = r.state
           /\ groups' = r.groups
           /\ last' = MkLast("step", <<>>, NoClosure, World, r)
    /\ ncalls' = ncalls + 1
    /\ UNCHANGED <<kind, self>>

ScenarioNext == ScenarioConstruct \/ ScenarioBackward \/ ScenarioStep

ScenarioSpec == Init /\ [][ScenarioNext]_vars

\* ------------------------------------------------------------------------
\* The optimizers of the tests' OPTIMIZERS table, built from their keyword
\* arguments and stepped on dense gradients
\* ------------------------------------------------------------------------

\* the keyword parameters of the three constructors with their defaults
\* (1e-6 and 1e-30 are below the resolution and read as 0)
LARSSignature ==
    [lr |-> Frac(1, 1000), weight_decay |-> Zero, momentum |-> Frac(9, 10),
     trust_coefficient |-> Frac(1, 1000), eps |-> Zero]

NeroSignature == [lr |-> Frac(1, 100), beta |-> Frac(999, 1000), constraints |-> TRUE]

AdaFactorSignature ==
    [lr |-> Frac(1, 1000), betas |-> <<Frac(9, 10), Frac(999, 1000)>>,
     decay_rate |-> Frac(-800, 1000), weight_decay |-> Zero, weight_decouple |-> TRUE,
     fixed_decay |-> FALSE, clip_threshold |-> One, ams_bound |-> FALSE,
     scale_parameter |-> TRUE, relative_step |-> TRUE, warmup_init |-> FALSE,
     eps1 |-> Zero, eps2 |-> Frac(1, 1000)]

\* the call cls(params, **kw): a keyword the signature does not name is a
\* TypeError unless the signature ends in **kwargs
UnexpectedKeyword(signature, kw, var_keyword) ==
    IF var_keyword \/ DOMAIN kw \subseteq DOMAIN signature THEN ""
    ELSE "TypeError: __init__() got an unexpected keyword argument"

\* the arguments as the constructor's body sees them
Bound(signature, kw) == [k \in DOMAIN signature |-> IF k \in DOMAIN kw THEN kw[k] ELSE signature[k]]

\* the LARS, Nero and AdaFactor rows of OPTIMIZERS
OPTIMIZERS ==
    {[cls |-> "LARS", kw |-> [lr |-> Frac(1, 2), weight_decay |-> Frac(1, 1000)]],
     [cls |-> "LARS", kw |-> [lr |-> Frac(1, 2), nesterov |-> TRUE]],
     [cls |-> "Nero", kw |-> [lr |-> Frac(1, 2)]],
     [cls |-> "Nero", kw |-> [lr |-> FInt(5), constraints |-> FALSE]],
     [cls |-> "AdaFactor",
      kw |-> [lr |-> FInt(10), weight_decay |-> Frac(1, 1000), scale_parameter |-> FALSE]],
     [cls |-> "AdaFactor",
      kw |-> [lr |-> FInt(10), weight_decay |-> Frac(1, 1000), ams_bound |-> TRUE]],
     [cls |-> "AdaFactor",
      kw |-> [lr |-> FInt(10), betas |-> <<None, Frac(999, 1000)>>,
              weight_decay |-> Frac(1, 1000)]]}

\* the values the network's parameters start from
TableParams ==
    {<<IntTensor(ParamShape[1], <<1, 2, -2, 0>>),
       IntTensor(ParamShape[2], <<0, 3>>),
       IntTensor(ParamShape[3], <<2, -1>>)>>,
     <<IntTensor(ParamShape[1], <<3, -1, 1, 2>>),
       IntTensor(ParamShape[2], <<1, 1>>),
       IntTensor(ParamShape[3], <<-1, 4>>)>>}

\* dense gradients, none of them zero
TableGrads ==
    {<<Dense(IntTensor(ParamShape[1], <<3, 4, -1, 2>>)),
       Dense(IntTensor(ParamShape[2], <<1, -2>>)),
       Dense(IntTensor(ParamShape[3], <<2, -1>>))>>,
     <<Dense(IntTensor(ParamShape[1], <<1, -1, 2, 1>>)),
       Dense(IntTensor(ParamShape[2], <<-1, 3>>)),
       Dense(IntTensor(ParamShape[3], <<1, 1>>))>>}

\* optimizer_class(parameters, **config)
TableConstruct ==
    /\ kind = "none"
    /\ \E row \in OPTIMIZERS, ps \in TableParams :
        LET signature == CASE row.cls = "LARS" -> LARSSignature
                           [] row.cls = "Nero" -> NeroSignature
                           [] OTHER -> AdaFactorSignature
            unexpected == UnexpectedKeyword(signature, row.kw, row.cls = "AdaFactor")
            a == Bound(signature, row.kw)
            err == IF unexpected # "" THEN unexpected
                   ELSE CASE row.cls = "LARS" -> check_valid_parameters(a)
                          [] row.cls = "Nero" -> NeroValidate(a)
                          [] OTHER -> AdaFactorValidate(a)
            w == [World EXCEPT !.raised = err]
        IN /\ last' = MkLast(row.cls, row, NoClosure, World, w)
           /\ IF err # ""
              THEN UNCHANGED <<kind, self, groups, p, grad, state>>
              ELSE /\ kind' = row.cls
                   /\ self' = CASE row.cls = "LARS" -> a
                                [] row.cls = "Nero" -> [lr |-> a.lr, beta |-> a.beta]
                                [] OTHER -> [decay_rate |-> a.decay_rate,
                                             clip_threshold |-> a.clip_threshold,
                                             eps1 |-> a.eps1, eps2 |-> a.eps2]
                   /\ groups' = MakeGroups(
                                   CASE row.cls = "LARS" -> LARSDefaults(a)
                                     [] row.cls = "Nero" ->
                                            [lr |-> a.lr, constraints |-> a.constraints]
                                     [] OTHER -> AdaFactorDefaults(a),
                                   NoOvers)
                   /\ p' = ps
                   /\ grad' = NoGrads
                   /\ state' = NoState
    /\ UNCHANGED ncalls

\* loss.backward()
TableBackward ==
    /\ kind # "none"
    /\ ncalls < MaxCalls
    /\ \E gs \in TableGrads : grad' = gs
    /\ last' = NoCall
    /\ UNCHANGED <<kind, self, groups, p, state, ncalls>>

\* optimizer.step()
TableStep ==
    /\ kind # "none"
    /\ ncalls < MaxCalls
    /\ \E r \in {CASE kind = "LARS" -> LARSStepOf(World, NoClosure)
                   [] kind = "Nero" -> NeroStepOf(World, NoClosure)
                   [] OTHER -> AdaFactorStepOf(World, NoClosure)} :
           /\ p' = r.p
           /\ grad' = r.grad
           /\ state' = r.state
           /\ groups' = r.groups
           /\ last' = MkLast("step", <<>>, NoClosure, World, r)
    /\ ncalls' = ncalls + 1
    /\ UNCHANGED <<kind, self>>

TableNext == TableConstruct \/ TableBackward \/ TableStep

TableSpec == Init /\ [][TableNext]_vars

\* ------------------------------------------------------------------------
\* Properties
\* ------------------------------------------------------------------------

\* the last call was a step of the optimizer k
StepOf(k) == kind = k /\ last.op = "step"

\* the iteration order of the last step, and the place of parameter i in it
LastOrder == Order(last.pre.groups)
Pos(i) == CHOOSE k \in 1..Len(LastOrder) : LastOrder[k].i = i
GroupOf(i) == last.pre.groups[LastOrder[Pos(i)].g]

\* the place of the first parameter whose gradient was sparse (0 if none)
FirstSparse ==
    IF \E k \in 1..Len(LastOrder) : last.grad[LastOrder[k].i].k = "sparse"
    THEN CHOOSE k \in 1..Len(LastOrder) :
            /\ last.grad[LastOrder[k].i].k = "sparse"
            /\ \A j \in 1..(k - 1) : last.grad[LastOrder[j].i].k # "sparse"
    ELSE 0

\* the last step reached parameter i
Reached(i) == FirstSparse = 0 \/ Pos(i) < FirstSparse

\* the last step reached parameter i and found a (dense) gradient on it
Processed(i) == Reached(i) /\ last.grad[i].k = "dense"

\* the momentum buffer of parameter i before the last step (zeros if none yet)
MuBefore(i) ==
    IF Has(last.pre.state[i], "mu") THEN last.pre.state[i]["mu"]
    ELSE ZerosLike(last.pre.p[i])

\* the trust ratio as the specification states it
StatedQ(tc, pn, un) ==
    IF Gt(pn, Zero) /\ Gt(un, Zero) THEN FDiv(FMul(tc, pn), un) ELSE One

\* C1: a LARS step updates every parameter of rank <= 1 that has a gradient
\* by plain momentum descent, mu' = momentum * mu + grad and
\* param' = param - lr * mu', with no weight decay and no trust ratio,
\* whatever the group's weight_decay and trust_coefficient
C1_RankLe1PlainMomentum ==
    StepOf("LARS") =>
        \A i \in ParamIds :
            (Rank(last.pre.p[i]) <= 1 /\ Processed(i)) =>
                LET g == GroupOf(i)
                    mu1 == TAdd(TScale(MuBefore(i), g.momentum), last.grad[i].t)
                IN /\ state[i]["mu"] = mu1
                   /\ p[i] = AddAlpha(last.pre.p[i], mu1, FNeg(g.lr))
                   /\ ~last.trace[i].scaled

\* a second step on a rank-1 parameter of a group with weight decay and a
\* trust coefficient, with momentum carried over from the first step
C1_Witness ==
    /\ StepOf("LARS")
    /\ \E i \in ParamIds :
        /\ Rank(last.pre.p[i]) <= 1 /\ Processed(i)
        /\ Gt(GroupOf(i).weight_decay, Zero)
        /\ Gt(GroupOf(i).trust_coefficient, Zero)
        /\ Has(last.pre.state[i], "mu")
        /\ last.pre.state[i]["mu"] # ZerosLike(p[i])
        /\ p[i] # last.pre.p[i]

\* C2: in a LARS step the trust ratio q of every rank >= 2 parameter is
\* trust_coefficient * param_norm / update_norm when both norms are > 0 and
\* exactly 1 when either norm is 0 (so an all-zero parameter gets q = 1); q is
\* never NaN or infinite
C2_TrustRatio ==
    StepOf("LARS") =>
        \A i \in ParamIds :
            (Rank(last.pre.p[i]) >= 2 /\ Processed(i)) =>
                LET g == GroupOf(i)
                    pn == TNorm(last.pre.p[i])
                    un == TNorm(AddAlpha(last.grad[i].t, last.pre.p[i], g.weight_decay))
                    q == last.trace[i].q
                IN /\ last.trace[i].scaled
                   /\ IsFin(q)
                   /\ (Gt(pn, Zero) /\ Gt(un, Zero)) => q = FDiv(FMul(g.trust_coefficient, pn), un)
                   /\ (pn = Zero \/ un = Zero) => q = One

\* one step in which an all-zero rank-2 parameter with a nonzero gradient got
\* q = 1 and a rank-2 parameter of positive norm got a finite q other than 1
C2_Witness ==
    /\ StepOf("LARS")
    /\ \E i, j \in ParamIds :
        /\ Rank(last.pre.p[i]) >= 2 /\ Processed(i)
        /\ TNorm(last.pre.p[i]) = Zero
        /\ TNorm(last.grad[i].t) # Zero
        /\ last.trace[i].q = One
        /\ Rank(last.pre.p[j]) >= 2 /\ Processed(j)
        /\ Gt(TNorm(last.pre.p[j]), Zero)
        /\ last.trace[j].q # One
        /\ IsFin(last.trace[j].q)

\* C3: in a LARS step, for every rank >= 2 parameter the weight decay is
\* folded into the gradient before the norms are taken (grad' = grad +
\* weight_decay * param, update_norm = ||grad'||), mu' = momentum * mu +
\* q * grad' and param' = param - lr * mu'; with momentum 0, weight_decay 0,
\* trust_coefficient 0.001, parameter norm 10 and gradient norm 5, q = 0.002
\* and the parameter changes by -lr * 0.002 * grad
C3_DecayFoldedThenScaled ==
    StepOf("LARS") =>
        \A i \in ParamIds :
            (Rank(last.pre.p[i]) >= 2 /\ Processed(i)) =>
                LET g == GroupOf(i)
                    gr == AddAlpha(last.grad[i].t, last.pre.p[i], g.weight_decay)
                    q == StatedQ(g.trust_coefficient, TNorm(last.pre.p[i]), TNorm(gr))
                    mu1 == TAdd(TScale(MuBefore(i), g.momentum), TScale(gr, q))
                IN /\ state[i]["mu"] = mu1
                   /\ p[i] = AddAlpha(last.pre.p[i], mu1, FNeg(g.lr))
                   /\ ( /\ g.momentum = Zero /\ g.weight_decay = Zero
                        /\ g.trust_coefficient = Frac(1, 1000)
                        /\ TNorm(last.pre.p[i]) = FInt(10)
                        /\ TNorm(last.grad[i].t) = FInt(5) )
                      => /\ last.trace[i].q = Frac(2, 1000)
                         /\ p[i] = AddAlpha(last.pre.p[i],
                                            TScale(last.grad[i].t, Frac(2, 1000)),
                                            FNeg(g.lr))

\* the scenario of C3 happened, and the parameter moved
C3_Witness ==
    /\ StepOf("LARS")
    /\ \E i \in ParamIds :
        /\ Rank(last.pre.p[i]) >= 2 /\ Processed(i)
        /\ GroupOf(i).momentum = Zero /\ GroupOf(i).weight_decay = Zero
        /\ GroupOf(i).trust_coefficient = Frac(1, 1000)
        /\ TNorm(last.pre.p[i]) = FInt(10)
        /\ TNorm(last.grad[i].t) = FInt(5)
        /\ p[i] # last.pre.p[i]

\* C6: LARS(...) with a negative lr, weight_decay, momentum,
\* trust_coefficient or eps raises an error naming an offending option and
\* leaves no parameter group and no per-parameter state behind; with every
\* option >= 0 (0 included) it constructs the optimizer
C6_LARSValidation ==
    last.op = "LARS" =>
        LET a == last.args.args
            negative == {o \in 1..Len(LARSOptions) : Lt(a[LARSOptions[o]], Zero)}
        IN IF negative # {}
           THEN /\ last.raised \in {LARSMessage(LARSOptions[o]) : o \in negative}
                /\ kind = "none"
                /\ groups = <<>> /\ state = <<>> /\ self = <<>>
           ELSE /\ last.raised = ""
                /\ kind = "LARS"
                /\ Len(groups) = Len(GroupParams)

\* a constructor call with a negative eps (the last option checked) failed
C6_Witness ==
    /\ last.op = "LARS"
    /\ Lt(last.args.args.eps, Zero)
    /\ last.raised = LARSMessage("eps")
    /\ kind = "none"

\* C7: no constructed optimizer has a group whose lr, weight_decay, momentum
\* or trust_coefficient is negative, per-group overrides included
C7_NoNegativeGroupOption ==
    kind = "LARS" =>
        \A gi \in 1..Len(groups) : \A o \in 1..4 :
            ~Lt(groups[gi][LARSOptions[o]], Zero)

\* step of the optimizer constructed
StepOfKind(w, closure) ==
    CASE kind = "LARS" -> LARSStepOf(w, closure)
      [] kind = "Nero" -> NeroStepOf(w, closure)
      [] OTHER -> AdaFactorStepOf(w, closure)

\* the gradients of the last step with those of the first sparse parameter
\* and of every parameter after it taken away
GradsBeforeSparse ==
    AsSeq([i \in ParamIds |-> IF Pos(i) < FirstSparse THEN last.grad[i] ELSE NoGrad])

\* C4: a step that meets a sparse gradient raises at that parameter; every
\* parameter before it in iteration order has the value and state a step
\* over those parameters alone gives it (its update is kept, nothing is
\* rolled back), and that parameter and every later one have the value and
\* per-parameter state they had before the call
C4_SparseGradientNoRollback ==
    (last.op = "step" /\ FirstSparse # 0) =>
        /\ last.raised # ""
        /\ LET before == [World EXCEPT !.p = last.pre.p, !.state = last.pre.state,
                                       !.groups = last.pre.groups,
                                       !.grad = GradsBeforeSparse]
               alone == StepOfKind(before, NoClosure)
           IN \A i \in ParamIds :
                IF Pos(i) < FirstSparse
                THEN p[i] = alone.p[i] /\ state[i] = alone.state[i]
                ELSE p[i] = last.pre.p[i] /\ state[i] = last.pre.state[i]

\* an AdaFactor step raised at the third parameter after it had moved the
\* first two and created their state
C4_Witness ==
    /\ StepOf("AdaFactor")
    /\ last.raised # ""
    /\ FirstSparse = 3
    /\ \A k \in 1..2 :
        /\ p[LastOrder[k].i] # last.pre.p[LastOrder[k].i]
        /\ state[LastOrder[k].i] # last.pre.state[LastOrder[k].i]

\* C5: a step invokes a supplied closure exactly once, before it changes any
\* parameter, per-parameter state or group step counter, and returns the
\* closure's loss; without a closure it returns None
C5_ClosureFirstLossReturned ==
    last.op = "step" =>
        IF last.closure.present
        THEN /\ last.calls = 1
             /\ last.saw = last.pre
             /\ last.raised = "" => last.ret = last.closure.loss
        ELSE /\ last.calls = 0
             /\ last.ret = NoLoss

\* a step with a closure returned the loss and also moved the parameters
C5_Witness ==
    /\ last.op = "step"
    /\ last.closure.present
    /\ last.raised = ""
    /\ last.ret = last.closure.loss
    /\ last.ret # NoLoss
    /\ \A i \in ParamIds : p[i] # last.pre.p[i]

AllZero(t) == \A e \in 1..Numel(t) : t.data[e] = Zero

BufferKeys == {"exp_avg_sq", "exp_avg", "exp_avg_sq_row", "exp_avg_sq_col", "exp_avg_sq_hat"}

\* C8: reset (Nero, AdaFactor), after any number of steps, completes and
\* leaves every auxiliary buffer of every parameter zero and every step
\* counter 0, and leaves the groups' hyperparameters unchanged
C8_ResetZeroesEverything ==
    last.op = "reset" =>
        /\ last.raised = ""
        /\ \A i \in ParamIds :
            /\ state[i] # EmptyBag
            /\ \A k \in BufferKeys \cap DOMAIN state[i] : AllZero(state[i][k])
            /\ kind = "Nero" => state[i]["step"] = 0
            /\ kind = "AdaFactor" => state[i]["RMS"] = Zero
        /\ \A gi \in 1..Len(groups) :
            /\ kind = "AdaFactor" => groups[gi].step = 0
            /\ \A k \in DOMAIN last.pre.groups[gi] \ {"step"} :
                groups[gi][k] = last.pre.groups[gi][k]

\* the tolerance of "up to floating tolerance": 0.01
Tolerance == Frac(1, 100)
Near(x, y) == IsFin(x) /\ IsFin(y) /\ AbsInt(x.v - y.v) <= Tolerance.v

\* neuron n of t has mean 0 and norm 1
Projected(t, n) ==
    /\ \A e \in 1..RowLen(t) : IsFin(NeuronRow(t, n)[e])
    /\ Near(MeanSeq(NeuronRow(t, n)), Zero)
    /\ Near(NormSeq(NeuronRow(t, n)), One)

\* C9: with constraints enabled, after a Nero step and after reset every
\* neuron of every processed parameter of rank > 1 has mean 0 and norm 1,
\* whatever the parameter's value and shape
C9_ProjectionMeanZeroNormOne ==
    (kind = "Nero" /\ last.op \in {"step", "reset"}) =>
        \A i \in ParamIds :
            ( /\ Rank(p[i]) > 1
              /\ GroupOf(i).constraints
              /\ (last.op = "reset" \/ Processed(i)) )
            => \A n \in 1..NeuronCount(p[i]) : Projected(p[i], n)

\* exp_avg_sq of neuron n of parameter i before the last step
ExpAvgSqBefore(i, n) ==
    IF last.pre.state[i] = EmptyBag THEN Zero
    ELSE last.pre.state[i]["exp_avg_sq"].data[n]

\* the elements of neuron n of t
NeuronElems(t, n) == ((n - 1) * RowLen(t) + 1)..(n * RowLen(t))

\* C10: in a Nero step, a neuron whose gradient norm has been zero in every
\* step since initialisation keeps exp_avg_sq = 0, gets a normalised gradient
\* of 0 (not NaN, not infinite), and is left unchanged by the gradient term
C10_ZeroGradientNeuronUntouched ==
    StepOf("Nero") =>
        \A i \in ParamIds : Processed(i) =>
            \A n \in 1..NeuronCount(last.grad[i].t) :
                ( /\ neuron_norm(last.grad[i].t).data[n] = Zero
                  /\ ExpAvgSqBefore(i, n) = Zero )
                => /\ state[i]["exp_avg_sq"].data[n] = Zero
                   /\ \A e \in NeuronElems(last.grad[i].t, n) :
                        /\ last.trace[i].grad_normed.data[e] = Zero
                        /\ last.trace[i].moved.data[e] = last.trace[i].before.data[e]

\* the last step was the first step of parameter i's group with the relative
\* step size and no warm-up
FirstRelativeStep(i) ==
    /\ StepOf("AdaFactor")
    /\ Processed(i)
    /\ groups[LastOrder[Pos(i)].g].step = 1
    /\ GroupOf(i).relative_step
    /\ ~GroupOf(i).warmup_init

\* parameter i is the scenario's parameter and its gradient is 1.0 everywhere
ScenarioCase(i) ==
    /\ p[i].shape = ScenarioShape
    /\ last.grad[i].t = Full(ScenarioShape, One)

\* the first update of the scenario, by hand, with step size rho: the
\* estimate is 1/sqrt(1 + eps1) everywhere, its RMS is at most the clip
\* threshold 1, so every element of the update is that times the learning rate
HandUpdate(i, rho) ==
    LET c == FRsqrt(FAdd(One, self.eps1))
        d == FMax(FDiv(c, self.clip_threshold), One)
    IN Full(ScenarioShape, FMul(FDiv(c, d), FMul(last.trace[i].param_scale, rho)))

\* C11 (as stated): at step 1 with relative_step and without warm-up the
\* relative step size is 1/sqrt(1) = 1.0 whatever lr is, and the scenario's
\* first update is the value computed by hand from that step size
C11_RelativeStepOneAtFirstStep ==
    \A i \in DOMAIN p : FirstRelativeStep(i) =>
        /\ last.trace[i].step_size = One
        /\ ScenarioCase(i) => last.trace[i].update = HandUpdate(i, One)

\* C11 (amended): at step 1 with relative_step and without warm-up the
\* relative step size is min(0.01, 1/sqrt(1)) = 0.01 whatever lr is, and the
\* scenario's first update is the value computed by hand from that step size
C11_RelativeStepAtFirstStep ==
    \A i \in DOMAIN p : FirstRelativeStep(i) =>
        /\ last.trace[i].step_size = Frac(1, 100)
        /\ ScenarioCase(i) =>
            /\ last.trace[i].update = HandUpdate(i, Frac(1, 100))
            /\ p[i] = TSub(last.pre.p[i],
                           TScale(HandUpdate(i, Frac(1, 100)), FSub(One, GroupOf(i).betas[1])))

\* the scenario's first step was taken with lr = 2 and moved the parameter
C11_Witness ==
    /\ FirstRelativeStep(1)
    /\ ScenarioCase(1)
    /\ GroupOf(1).lr = FInt(2)
    /\ p[1] # last.pre.p[1]

\* C12: in an AdaFactor step the learning rate of a parameter is the step
\* size times max(eps2, RMS of the parameter) when scale_parameter is true,
\* and the step size alone when scale_parameter is false
C12_ParameterScale ==
    StepOf("AdaFactor") =>
        \A i \in DOMAIN p : Processed(i) =>
            last.trace[i].lr =
                IF GroupOf(i).scale_parameter
                THEN FMul(FMax(self.eps2, get_rms(last.pre.p[i])), last.trace[i].step_size)
                ELSE last.trace[i].step_size

\* C13: with ams_bound, from one AdaFactor step of a parameter to its next
\* step, no element of exp_avg_sq_hat decreases and no element of the factor
\* multiplied into the gradient increases, the first step included
C13_AmsBoundMonotone ==
    [][(kind = "AdaFactor" /\ last.op = "step" /\ last'.op = "step") =>
        \A i \in DOMAIN p :
            (GroupOf(i).ams_bound /\ Processed(i) /\ Processed(i)') =>
                \A e \in 1..Numel(p[i]) :
                    /\ ~Lt(state'[i]["exp_avg_sq_hat"].data[e],
                           state[i]["exp_avg_sq_hat"].data[e])
                    /\ ~Gt(last'.trace[i].factor.data[e], last.trace[i].factor.data[e])]_vars

\* a tensor of the given shape, with as many elements as the shape holds
HasShape(t, shape) ==
    /\ t.shape = shape
    /\ Len(t.data) = (IF Len(shape) = 1 THEN shape[1] ELSE shape[1] * shape[2])

\* the buffers of AdaFactor parameter i are those its shape asks for
BuffersMatchShape(i) ==
    LET st == state[i]
        sh == p[i].shape
    IN /\ Has(st, "exp_avg")
       /\ HasShape(st["exp_avg"], sh)
       /\ IF Len(sh) >= 2
          THEN /\ Has(st, "exp_avg_sq_row")
               /\ Has(st, "exp_avg_sq_col")
               /\ ~Has(st, "exp_avg_sq")
               /\ HasShape(st["exp_avg_sq_row"], SubSeq(sh, 1, Len(sh) - 1))
               /\ HasShape(st["exp_avg_sq_col"], SubSeq(sh, 1, Len(sh) - 2) \o <<sh[Len(sh)]>>)
          ELSE /\ Has(st, "exp_avg_sq")
               /\ ~Has(st, "exp_avg_sq_row")
               /\ ~Has(st, "exp_avg_sq_col")
               /\ HasShape(st["exp_avg_sq"], sh)

\* the keys of a state bag with the shape of each tensor under them
BufferShapes(bag) == [k \in DOMAIN bag \cap BufferKeys |-> bag[k].shape]

\* C14: an AdaFactor parameter has state after every step that found a
\* gradient on it; in every reachable state a parameter with state has
\* exp_avg of its own shape and, for rank >= 2, exactly the factored row and
\* column buffers (the shape without the last, and without the second-to-last
\* axis) and no dense exp_avg_sq, for rank <= 1 a dense exp_avg_sq of its shape
\* and no row/column buffers; no step and no reset removes the state or changes
\* which buffers exist or their shapes
C14_BuffersMatchShape ==
    /\ [](kind = "AdaFactor" =>
            \A i \in DOMAIN p :
                /\ (last.op = "step" /\ Processed(i)) => state[i] # EmptyBag
                /\ state[i] # EmptyBag => BuffersMatchShape(i))
    /\ [][kind = "AdaFactor" =>
            \A i \in DOMAIN p :
                state[i] # EmptyBag =>
                    /\ state'[i] # EmptyBag
                    /\ BufferShapes(state'[i]) = BufferShapes(state[i])]_vars

\* C15: every LARS, Nero and AdaFactor row of the OPTIMIZERS table can be
\* constructed and then stepped on dense gradients: no constructor call and
\* no step raises
C15_TableRowsRun ==
    last.op \in {"LARS", "Nero", "AdaFactor", "step"} => last.raised = ""

\* C16: a step of LARS, Nero or AdaFactor skips a parameter without a
\* gradient: its value and its per-parameter state (created or not) are what
\* they were before the call, and the parameters after it in the same group
\* that have a gradient are still updated
C16_AbsentGradientSkipped ==
    last.op = "step" =>
        \A i \in DOMAIN p : last.grad[i].k = "none" =>
            /\ p[i] = last.pre.p[i]
            /\ state[i] = last.pre.state[i]
            /\ \A j \in DOMAIN p :
                (LastOrder[Pos(j)].g = LastOrder[Pos(i)].g /\ Pos(j) > Pos(i) /\ Processed(j))
                => /\ last.trace[j] # <<>>
                   /\ state[j] # EmptyBag

\* the first parameter, which has state from an earlier step, had no gradient
\* in the last step, and the second parameter of its group moved
C16_Witness ==
    /\ last.op = "step"
    /\ last.grad[1].k = "none"
    /\ state[1] # EmptyBag
    /\ last.grad[2].k = "dense"
    /\ p[2] # last.pre.p[2]

\* the value a Nero parameter of group has after initialisation from value v
InitValue(group, v) == IF group.constraints /\ Rank(v) > 1 THEN NeroProject(v) ELSE v

\* the scale initialisation gives a parameter of (initialised) value v
InitScale(v) ==
    LET m == MeanSeq(neuron_norm(v).data)
    IN IF m = Zero THEN Frac(1, 100) ELSE m

\* C17: Nero's reset and the first step with a gradient initialise a
\* parameter the same way (recentred and rescaled if constraints and rank > 1,
\* step 0, exp_avg_sq zeros in the shape of the per-neuron norms, scale the
\* mean per-neuron norm or 0.01 when that is zero); scale is never 0 once the
\* state exists; a step of a parameter that has state adds exactly 1 to step
\* and does not initialise again; and a reset followed by a step ends as the
\* first step of a fresh optimizer on the same values and gradients does
C17_NeroInitialisation ==
    /\ [](kind = "Nero" =>
            \A i \in DOMAIN p :
                /\ state[i] # EmptyBag => state[i]["scale"] # Zero
                /\ (last.op = "reset") =>
                    /\ p[i] = InitValue(GroupOf(i), last.pre.p[i])
                    /\ state[i] = [step |-> 0, exp_avg_sq |-> ZerosLike(neuron_norm(p[i])),
                                   scale |-> InitScale(p[i])]
                /\ (last.op = "step" /\ Processed(i) /\ last.pre.state[i] = EmptyBag) =>
                    /\ last.trace[i].before = InitValue(GroupOf(i), last.pre.p[i])
                    /\ state[i]["step"] = 1
                    /\ state[i]["scale"] = InitScale(last.trace[i].before)
                    /\ state[i]["exp_avg_sq"] =
                        TScale(TSquare(neuron_norm(last.grad[i].t)), FSub(One, self.beta))
                /\ (last.op = "step" /\ Processed(i) /\ last.pre.state[i] # EmptyBag) =>
                    /\ state[i]["step"] = last.pre.state[i]["step"] + 1
                    /\ state[i]["scale"] = last.pre.state[i]["scale"]
                    /\ last.trace[i].before = last.pre.p[i])
    /\ [][(kind = "Nero" /\ last.op = "reset" /\ last'.op = "step") =>
            LET fresh == NeroStepOf([World EXCEPT !.p = last.pre.p, !.state = NoState,
                                                  !.grad = last'.grad], NoClosure)
            IN \A i \in DOMAIN p : Processed(i)' =>
                    /\ p'[i] = fresh.p[i]
                    /\ state'[i] = fresh.state[i]]_vars

\* a step of parameters a reset had initialised: the first parameter, under
\* constraints, goes from step 0 to step 1 and is moved by the gradient term
C17_Witness ==
    /\ StepOf("Nero")
    /\ \A i \in DOMAIN p : Processed(i)
    /\ last.pre.state[1] # EmptyBag
    /\ last.pre.state[1]["step"] = 0
    /\ GroupOf(1).constraints
    /\ state[1]["step"] = 1
    /\ last.trace[1].moved # last.trace[1].before

\* the step counter of group gi of gs (0 when the group has none yet)
StepCount(gs, gi) == IF Has(gs[gi], "step") THEN gs[gi]["step"] ELSE 0

\* the last step entered the loop of group gi (a step that raises at a
\* parameter does not enter the groups after that parameter's)
GroupReached(gi) == FirstSparse = 0 \/ gi <= LastOrder[FirstSparse].g

\* beta2(t) of the trace of parameter i is 1 - t^decay_rate for the counter t
\* of its group, 0 at t = 1, in [0, 1), and not below beta2(t - 1)
DecayFromCounter(i) ==
    LET t == groups[LastOrder[Pos(i)].g]["step"]
        b == last.trace[i].beta2_t
    IN /\ b = FSub(One, PowStep(t, self.decay_rate))
       /\ t = 1 => b = Zero
       /\ ~Lt(b, Zero) /\ Lt(b, One)
       /\ t > 1 => ~Lt(b, FSub(One, PowStep(t - 1, self.decay_rate)))

\* C18 (as stated): every AdaFactor step call adds exactly 1 to the step
\* counter of every group (giving 1 on the first call after construction or
\* reset), with or without gradients in the group, and uses
\* beta2(t) = 1 - t^decay_rate of the new counter for the group's parameters
C18_EveryGroupCounted ==
    StepOf("AdaFactor") =>
        /\ \A gi \in 1..Len(groups) :
            StepCount(groups, gi) = StepCount(last.pre.groups, gi) + 1
        /\ \A i \in DOMAIN p : Processed(i) => DecayFromCounter(i)

\* C18 (amended): an AdaFactor step call adds exactly 1 to the step counter
\* of every group it enters, with or without gradients in the group: of every
\* group when it returns, of the groups up to the one of the sparse gradient
\* when it raises, the later groups keeping their counter; reset sets the
\* counter of each group it enters to 0 and nothing else changes a counter;
\* beta2(t) = 1 - t^decay_rate is computed from the new counter, is 0 at
\* t = 1, lies in [0, 1) and does not decrease with t
C18_ReachedGroupsCounted ==
    /\ [](kind = "AdaFactor" =>
            /\ last.op = "step" =>
                /\ \A gi \in 1..Len(groups) :
                    StepCount(groups, gi) =
                        StepCount(last.pre.groups, gi) + (IF GroupReached(gi) THEN 1 ELSE 0)
                /\ \A i \in DOMAIN p : Processed(i) => DecayFromCounter(i)
            /\ (last.op = "reset" /\ last.raised = "") =>
                \A gi \in 1..Len(groups) : groups[gi]["step"] = 0)
    /\ [][(kind = "AdaFactor" /\ last'.op \notin {"step", "reset"}) => groups' = groups]_vars

\* a second step returned although the second group had no gradient in it:
\* both counters are 2 and beta2(2) was used for the first parameter
C18_Witness ==
    /\ StepOf("AdaFactor")
    /\ last.raised = ""
    /\ last.grad[3].k = "none"
    /\ groups[1]["step"] = 2
    /\ groups[2]["step"] = 2
    /\ Processed(1)
    /\ Gt(last.trace[1].beta2_t, Zero)

\* C19: an AdaFactor step divides the candidate update by
\* max(rms(candidate) / clip_threshold, 1): the divisor is at least 1; a
\* candidate whose RMS is at most clip_threshold is left as it is; one whose
\* RMS exceeds it is scaled down to RMS clip_threshold; no element grows
C19_ClipNeverScalesUp ==
    StepOf("AdaFactor") =>
        \A i \in DOMAIN p : Processed(i) =>
            LET c == last.trace[i].candidate
                u == last.trace[i].clipped
                r == get_rms(c)
            IN /\ ~Lt(last.trace[i].divisor, One)
               /\ last.trace[i].update = TScale(u, last.trace[i].lr)
               /\ ~Gt(r, self.clip_threshold) => u = c
               /\ Gt(r, self.clip_threshold) =>
                    /\ Near(get_rms(u), self.clip_threshold)
                    /\ Gt(last.trace[i].divisor, One)
               /\ \A e \in 1..Numel(c) : ~Gt(FAbs(u.data[e]), FAbs(c.data[e]))

\* a step clipped a candidate whose RMS was above the threshold
C19_Witness ==
    /\ StepOf("AdaFactor")
    /\ \E i \in DOMAIN p :
        /\ Processed(i)
        /\ Gt(get_rms(last.trace[i].candidate), self.clip_threshold)
        /\ last.trace[i].clipped # last.trace[i].candidate

\* the errors a read of an absent state field raises
KeyErrors == {KeyError(k) : k \in BufferKeys}

\* C20: an AdaFactor step reads no state field before it has initialised it:
\* for every parameter with a gradient that the step reaches, a parameter of
\* a group that carries the GaLore 'rank' option included, exp_avg, the
\* second-moment buffers and RMS are in its state when the update reads them,
\* so the step raises no KeyError and leaves the parameter with those fields
C20_StateInitialisedBeforeRead ==
    StepOf("AdaFactor") =>
        /\ last.raised \notin KeyErrors
        /\ \A i \in DOMAIN p :
              Processed(i) => BuffersMatchShape(i) /\ Has(state[i], "RMS")
====
